---------------------------- MODULE Spec2Model ----------------------------
(***************************************************************************)
(* celestia-snapshot-finder: the provider-selection pipeline of runRoot    *)
(* (cmd), Manager.FilterProviders / Manager.CheckHealth (provider) and     *)
(* SpeedTester.TestProviders (speedtest).                                  *)
(*                                                                         *)
(* Numbers.  Size is an int64 read from a header and may be as large as    *)
(* 2^63-1, beyond TLC's integers, so an int64 is kept as a sign and a      *)
(* decimal magnitude (most significant digit first, no leading zero, zero  *)
(* is the empty magnitude).  A float64 is kept as an exact fraction: Speed *)
(* as num/den over small integers, DownloadTime as num/den with a decimal  *)
(* numerator.  Rounding of float64 is not modelled; every value the model  *)
(* draws is exactly representable as a float64.                            *)
(***************************************************************************)
EXTENDS Integers, Sequences, FiniteSets, TLC

\* ---------------------------------------------------------------- bounds
MaxProviders == 2
MaxSnapshots == 3
MaxCandidates == 2
MaxReads == 2
MaxPrompts == 3

\* ------------------------------------------------------ program constants
testDuration == 10
StatusOK == 200
MB == 1000 * 1000
bufferSize == 32 * 1024
speedClientTimeout == testDuration + 5

\* ------------------------------------------------- decimal magnitudes
RECURSIVE StripZeros(_)
StripZeros(d) ==
    IF d = <<>> THEN <<>>
    ELSE IF d[1] = 0 THEN StripZeros(Tail(d)) ELSE d

RECURSIVE MagLessFrom(_, _, _)
MagLessFrom(a, b, i) ==
    IF i > Len(a) THEN FALSE
    ELSE IF a[i] # b[i] THEN a[i] < b[i]
    ELSE MagLessFrom(a, b, i + 1)

\* a < b for magnitudes without leading zeros
MagLess(a, b) ==
    IF Len(a) # Len(b) THEN Len(a) < Len(b) ELSE MagLessFrom(a, b, 1)

RECURSIVE NatMag(_)
NatMag(n) == IF n = 0 THEN <<>> ELSE Append(NatMag(n \div 10), n % 10)

RECURSIVE MagMulFrom(_, _, _, _, _)
MagMulFrom(a, k, i, carry, acc) ==
    IF i = 0 THEN NatMag(carry) \o acc
    ELSE LET t == a[i] * k + carry
         IN  MagMulFrom(a, k, i - 1, t \div 10, <<t % 10>> \o acc)

\* a * k for a magnitude a and a small natural k
MagMul(a, k) == StripZeros(MagMulFrom(a, k, Len(a), 0, <<>>))

\* math.MaxInt64 = 2^63 - 1, and 2^63
MaxInt64Mag == <<9,2,2,3,3,7,2,0,3,6,8,5,4,7,7,5,8,0,7>>
TwoTo63Mag == <<9,2,2,3,3,7,2,0,3,6,8,5,4,7,7,5,8,0,8>>

Int64Zero == [neg |-> FALSE, mag |-> <<>>]
Int64Pos(z) == ~z.neg /\ z.mag # <<>>
Int64NonNeg(z) == ~z.neg

\* ------------------------------------------------------------- float64
RECURSIVE GCD(_, _)
GCD(a, b) == IF b = 0 THEN a ELSE GCD(b, a % b)

\* the fraction num/den (num >= 0, den > 0) in lowest terms
Float(num, den) == [num |-> num \div GCD(num, den), den |-> den \div GCD(num, den)]
FloatZero == Float(0, 1)
FloatPos(f) == f.num > 0
FloatGreater(f, g) == f.num * g.den > g.num * f.den

TimeZero == [num |-> <<>>, den |-> 1]
TimeEq(t, u) == MagMul(t.num, u.den) = MagMul(u.num, t.den)


\* ------------------------------------------------------------ strconv
DigitChars == <<"0", "1", "2", "3", "4", "5", "6", "7", "8", "9">>
IsDigitChar(c) == \E i \in 1..10 : DigitChars[i] = c
DigitOf(c) == (CHOOSE i \in 1..10 : DigitChars[i] = c) - 1

\* strconv.ParseInt(s, 10, 64): an optional sign, then one or more decimal
\* digits; a value outside [-2^63, 2^63-1] is a range error.
ParseInt(s) ==
    LET signed == s # <<>> /\ s[1] \in {"+", "-"}
        neg    == s # <<>> /\ s[1] = "-"
        body   == IF signed THEN Tail(s) ELSE s
        syntax == body # <<>> /\ \A i \in 1..Len(body) : IsDigitChar(body[i])
        mag    == StripZeros([i \in 1..Len(body) |-> DigitOf(body[i])])
        range  == IF neg THEN ~MagLess(TwoTo63Mag, mag)
                  ELSE ~MagLess(MaxInt64Mag, mag)
    IN  IF syntax /\ range
        THEN [err |-> FALSE, val |-> [neg |-> neg /\ mag # <<>>, mag |-> mag]]
        ELSE [err |-> TRUE, val |-> Int64Zero]

\* ------------------------------------------------------- config, provider
NewProviderInfo(name, url, metadataURL) ==
    [Name |-> name, URL |-> url, MetadataURL |-> metadataURL,
     Speed |-> FloatZero, Size |-> Int64Zero, DownloadTime |-> TimeZero]

\* FilterSnapshots with the empty chain id matching nothing
RECURSIVE FilterSnapshotsNoWildcard(_, _, _, _, _)
FilterSnapshotsNoWildcard(p, targetType, chain, j, result) ==
    IF j > Len(p.Snapshots) THEN result
    ELSE LET s == p.Snapshots[j]
         IN  FilterSnapshotsNoWildcard(p, targetType, chain, j + 1,
                 IF s.Type = targetType /\ s.ChainID = chain
                 THEN Append(result, NewProviderInfo(p.Name, s.URL, s.MetadataURL))
                 ELSE result)

\* lines 35-43: the snapshots of provider p, appended to result
RECURSIVE FilterSnapshots(_, _, _, _, _)
FilterSnapshots(p, targetType, chain, j, result) ==
    IF j > Len(p.Snapshots) THEN result
    ELSE LET s == p.Snapshots[j]
         IN  FilterSnapshots(p, targetType, chain, j + 1,
                 IF s.Type = targetType /\ (chain = "" \/ s.ChainID = chain)
                 THEN Append(result, NewProviderInfo(p.Name, s.URL, s.MetadataURL))
                 ELSE result)

RECURSIVE FilterFrom(_, _, _, _, _)
FilterFrom(ps, targetType, chain, i, result) ==
    IF i > Len(ps) THEN result
    ELSE FilterFrom(ps, targetType, chain, i + 1,
             FilterSnapshots(ps[i], targetType, chain, 1, result))

TargetType(nt, st) == nt \o "-" \o st

FilterProviders(ps, nt, st, chain) ==
    FilterFrom(ps, TargetType(nt, st), chain, 1, <<>>)

\* The response of m.client.Head: an error (connection failure, timeout), or
\* a status and the Content-Length header ("" when absent).
HeadError == [err |-> TRUE, status |-> 0, contentLength |-> <<>>]
HeadResponse(status, cl) == [err |-> FALSE, status |-> status, contentLength |-> cl]

\* isHealthy's Size of a response whose status is 200
HeaderSize(cl) ==
    IF cl = <<>> THEN Int64Zero
    ELSE IF ParseInt(cl).err THEN Int64Zero ELSE ParseInt(cl).val

\* isHealthy without the status check of line 76
isHealthyAnyStatus(resp, info) ==
    IF resp.err THEN [healthy |-> FALSE, info |-> info]
    ELSE [healthy |-> TRUE,
          info |-> [info EXCEPT !.Size = HeaderSize(resp.contentLength)]]

\* isHealthy(url, info): whether healthy, and info after the call
isHealthy(resp, info) ==
    IF resp.err THEN [healthy |-> FALSE, info |-> info]
    ELSE IF resp.status # StatusOK THEN [healthy |-> FALSE, info |-> info]
    ELSE [healthy |-> TRUE,
          info |-> [info EXCEPT !.Size = HeaderSize(resp.contentLength)]]


\* ------------------------------------------------------------ speedtest
\* testSpeed's result in MB/s: float64(totalBytes) / duration / 1000 / 1000,
\* and 0 when duration is 0 (duration in seconds).
SpeedOf(totalBytes, duration) ==
    IF duration = 0 THEN FloatZero ELSE Float(totalBytes, duration * MB)

\* float64(^uint64(0) >> 1): 2^63 - 1 converted to float64, which is 2^63
MaxTime == [num |-> TwoTo63Mag, den |-> 1]

\* the DownloadTime TestProviders gives a candidate whose Speed is written
DownloadTimeOf(info) ==
    IF FloatPos(info.Speed) /\ Int64Pos(info.Size)
    THEN LET speedInBytes == Float(info.Speed.num * MB, info.Speed.den)
         IN  [num |-> MagMul(info.Size.mag, speedInBytes.den),
              den |-> speedInBytes.num]
    ELSE MaxTime

\* ------------------------------------------------------------------ cmd
nodeTypeMap ==
    [k \in {"c", "b", "consensus", "bridge"} |->
        IF k \in {"c", "consensus"} THEN "consensus" ELSE "bridge"]
snapshotTypeMap ==
    [k \in {"p", "a", "pruned", "archive"} |->
        IF k \in {"p", "pruned"} THEN "pruned" ELSE "archive"]

validateArgs(nt, st) ==
    IF nt \notin DOMAIN nodeTypeMap \/ st \notin DOMAIN snapshotTypeMap
    THEN [err |-> TRUE, nodeType |-> "", snapshotType |-> ""]
    ELSE [err |-> FALSE, nodeType |-> nodeTypeMap[nt],
          snapshotType |-> snapshotTypeMap[st]]

\* the comparator with the comparison turned round
LessAscending(a, b) == FloatGreater(b.Speed, a.Speed)

\* the comparator handed to sort.Slice: providers[i].Speed > providers[j].Speed
Less(a, b) == FloatGreater(a.Speed, b.Speed)

\* sort.Slice's contract: the result is a permutation of the input in which
\* no element is Less than an earlier one.  The order of elements neither of
\* which is Less than the other is left open ("The sort is not guaranteed to
\* be stable"), so every such order is an outcome.
Perms(n) == {f \in [1..n -> 1..n] : \A i, j \in 1..n : i # j => f[i] # f[j]}
SortOutcomes(ps) ==
    {[i \in 1..Len(ps) |-> ps[f[i]]] : f \in
        {g \in Perms(Len(ps)) :
            \A i, j \in 1..Len(ps) : i < j => ~Less(ps[g[j]], ps[g[i]])}}


\* ---------------------------------------------------------------- state
VARIABLES
    args,             \* runRoot's args: <<node type, snapshot type>> as typed
    chainID,          \* --chain-id
    manual,           \* --manual
    remote,           \* the providers the catalog at providersURL lists
    pc,               \* runRoot's position
    nodeType,         \* runRoot's nodeType and snapshotType after validateArgs
    snapshotType,
    cfg,              \* cfg.Providers, which NewManager keeps as m.providers
    providers,        \* runRoot's providers
    err,              \* the error runRoot returns ("" is nil)
    choice,           \* runRoot's choice
    scans,            \* the calls of fmt.Scanf so far
    selectedProvider, \* runRoot's selectedProvider (<<>> before it is set)
    downloadURL,      \* the URLs handed to downloadMgr.Download, in order
    hIdx,             \* CheckHealth: the index of the range loop
    healthy,          \* CheckHealth: healthy
    inflight,         \* CheckHealth: a Head request is out
    headLog,          \* the responses of the Head requests, in order
    result,           \* TestProviders: result
    wg,               \* TestProviders: the WaitGroup's counter
    task              \* TestProviders: the goroutine of each index

vars == <<args, chainID, manual, remote, pc, nodeType, snapshotType, cfg,
          providers, err, choice, scans, selectedProvider, downloadURL,
          hIdx, healthy, inflight, headLog, result, wg, task>>

inputVars == <<args, chainID, manual, remote>>
rootVars == <<nodeType, snapshotType, cfg>>
selectVars == <<choice, scans, selectedProvider, downloadURL>>
healthVars == <<hIdx, healthy, inflight, headLog>>
speedVars == <<result, wg, task>>

\* ------------------------------------------------------ runRoot, line 93
\* lines 100-103
ValidateArgs ==
    /\ pc = "validate"
    /\ LET v == validateArgs(args[1], args[2])
       IN  IF v.err
           THEN /\ err' = "validation failed"
                /\ pc' = "exit"
                /\ UNCHANGED <<nodeType, snapshotType>>
           ELSE /\ nodeType' = v.nodeType
                /\ snapshotType' = v.snapshotType
                /\ pc' = "fetch"
                /\ err' = err
    /\ UNCHANGED <<inputVars, cfg, providers, selectVars, healthVars, speedVars>>

\* lines 108-111: fetchProviders returns the catalog or an error
FetchProviders(ok) ==
    /\ pc = "fetch"
    /\ IF ok
       THEN cfg' = remote /\ pc' = "filter" /\ err' = err
       ELSE cfg' = cfg /\ pc' = "exit"
            /\ err' = "failed to load providers configuration"
    /\ UNCHANGED <<inputVars, nodeType, snapshotType, providers, selectVars,
                   healthVars, speedVars>>

\* an emptiness check that no list meets
NoneLeftBelowZero(ps) == Len(ps) < 0

\* the emptiness check left out
NoneLeftNever(ps) == FALSE

\* len(providers) == 0, lines 131 and 145
NoneLeft(ps) == Len(ps) = 0

\* lines 130-133
RunFilter ==
    /\ pc = "filter"
    /\ providers' = FilterProviders(cfg, nodeType, snapshotType, chainID)
    /\ IF NoneLeft(providers')
       THEN pc' = "exit" /\ err' = "no snapshots found"
       ELSE pc' = "health" /\ err' = err
    /\ UNCHANGED <<inputVars, rootVars, selectVars, healthVars, speedVars>>

\* ------------------------------------- CheckHealth, manager.go line 49
\* line 66: the loop's next iteration sends its Head request
HealthSend ==
    /\ pc = "health"
    /\ hIdx <= Len(providers)
    /\ ~inflight
    /\ inflight' = TRUE
    /\ UNCHANGED <<inputVars, rootVars, pc, providers, err, selectVars,
                   hIdx, healthy, headLog, speedVars>>

\* lines 53-59 and 66-105: the response arrives; p is the loop's copy
HealthRecv(resp) ==
    /\ pc = "health"
    /\ inflight
    /\ LET h == isHealthy(resp, providers[hIdx])
       IN  healthy' = IF h.healthy THEN Append(healthy, h.info) ELSE healthy
    /\ headLog' = Append(headLog, resp)
    /\ hIdx' = hIdx + 1
    /\ inflight' = FALSE
    /\ UNCHANGED <<inputVars, rootVars, pc, providers, err, selectVars, speedVars>>

\* manager.go line 61 and runRoot lines 144-147
HealthReturn ==
    /\ pc = "health"
    /\ hIdx > Len(providers)
    /\ providers' = healthy
    /\ IF NoneLeft(healthy)
       THEN pc' = "exit" /\ err' = "no healthy snapshots found"
       ELSE pc' = "speedtest" /\ err' = err
    /\ UNCHANGED <<inputVars, rootVars, selectVars, healthVars, speedVars>>


\* --------------------------------- TestProviders, speedtest line 31
\* gets counts the task's calls of client.Get; err is the error of its last
\* network call ("get": Get failed; otherwise what the last Read returned)
IdleTask == [pc |-> "go", gets |-> 0, err |-> "nil", totalBytes |-> 0,
             elapsed |-> 0, reads |-> 0, speed |-> FloatZero]

\* lines 32-56: copy the list, wg.Add(len), start one goroutine per index
SpeedStart ==
    /\ pc = "speedtest"
    /\ result' = providers
    /\ wg' = Len(providers)
    /\ task' = [i \in 1..Len(providers) |-> IdleTask]
    /\ pc' = "wait"
    /\ UNCHANGED <<inputVars, rootVars, providers, err, selectVars, healthVars>>

\* a testSpeed that calls Get again when it failed
SpeedGetRetrying(idx, ok) ==
    /\ pc = "wait"
    /\ idx \in 1..Len(task)
    /\ task[idx].pc = "go"
    /\ task' = [task EXCEPT ![idx].pc = IF ok THEN "read" ELSE "go",
                            ![idx].gets = @ + 1,
                            ![idx].err = IF ok THEN "nil" ELSE "get"]
    /\ UNCHANGED <<inputVars, rootVars, pc, providers, err, selectVars,
                   healthVars, result, wg>>

\* testSpeed lines 63-74: st.client.Get returns a response or an error
SpeedGet(idx, ok) ==
    /\ pc = "wait"
    /\ idx \in 1..Len(task)
    /\ task[idx].pc = "go"
    /\ task' = [task EXCEPT ![idx].pc = IF ok THEN "read" ELSE "measured",
                            ![idx].gets = @ + 1,
                            ![idx].err = IF ok THEN "nil" ELSE "get"]
    /\ UNCHANGED <<inputVars, rootVars, pc, providers, err, selectVars,
                   healthVars, result, wg>>

\* a loop without the test window: only an error or the end of the stream
\* ends it
LoopEndsOnErrorOnly(rderr, elapsed) == rderr # "nil"

\* whether the loop of line 76 ends after a Read that returned rderr with
\* `elapsed` seconds gone since start
LoopEnds(rderr, elapsed) == rderr # "nil" \/ elapsed >= testDuration

\* testSpeed lines 76-93: one Read of the body, taking rd.dt seconds and
\* returning rd.n bytes and rd.err; when the loop ends the rate is computed
SpeedRead(idx, rd) ==
    /\ pc = "wait"
    /\ idx \in 1..Len(task)
    /\ task[idx].pc = "read"
    /\ task[idx].elapsed < testDuration
    /\ rd.n <= bufferSize
    /\ task[idx].elapsed + rd.dt <= speedClientTimeout
    /\ task[idx].reads < MaxReads
    /\ task[idx].reads = MaxReads - 1 => LoopEnds(rd.err, task[idx].elapsed + rd.dt)
    /\ LET total   == IF rd.err = "error" THEN task[idx].totalBytes
                      ELSE task[idx].totalBytes + rd.n
           elapsed == task[idx].elapsed + rd.dt
       IN  task' = [task EXCEPT ![idx] =
                IF LoopEnds(rd.err, elapsed)
                THEN [IdleTask EXCEPT !.pc = "measured",
                                      !.gets = task[idx].gets,
                                      !.err = rd.err,
                                      !.speed = SpeedOf(total, elapsed)]
                ELSE [task[idx] EXCEPT !.totalBytes = total,
                                       !.elapsed = elapsed,
                                       !.reads = @ + 1]]
    /\ UNCHANGED <<inputVars, rootVars, pc, providers, err, selectVars,
                   healthVars, result, wg>>

\* the annotation written into a freshly built record
AnnotatedFresh(info, speed) ==
    LET withSpeed == [NewProviderInfo(info.Name, info.URL, info.MetadataURL)
                         EXCEPT !.Speed = speed]
    IN  [withSpeed EXCEPT !.DownloadTime = DownloadTimeOf(withSpeed)]

\* an annotation that also clears the size of a candidate of rate 0
AnnotatedResized(info, speed) ==
    LET withSpeed == [info EXCEPT !.Speed = speed,
                                  !.Size = IF speed = FloatZero THEN Int64Zero ELSE @]
    IN  [withSpeed EXCEPT !.DownloadTime = DownloadTimeOf(withSpeed)]

\* the candidate of a slot after lines 43-51
Annotated(info, speed) ==
    LET withSpeed == [info EXCEPT !.Speed = speed]
    IN  [withSpeed EXCEPT !.DownloadTime = DownloadTimeOf(withSpeed)]

\* tasks that all write the first slot
SpeedAnnotateFirstSlot(idx) ==
    /\ pc = "wait"
    /\ idx \in 1..Len(task)
    /\ task[idx].pc = "measured"
    /\ result' = [result EXCEPT ![1] = Annotated(result[1], task[idx].speed)]
    /\ wg' = wg - 1
    /\ task' = [task EXCEPT ![idx].pc = "done"]
    /\ UNCHANGED <<inputVars, rootVars, pc, providers, err, selectVars, healthVars>>

\* lines 40-54: write Speed and DownloadTime of the own slot, then wg.Done
SpeedAnnotate(idx) ==
    /\ pc = "wait"
    /\ idx \in 1..Len(task)
    /\ task[idx].pc = "measured"
    /\ result' = [result EXCEPT ![idx] = Annotated(result[idx], task[idx].speed)]
    /\ wg' = wg - 1
    /\ task' = [task EXCEPT ![idx].pc = "done"]
    /\ UNCHANGED <<inputVars, rootVars, pc, providers, err, selectVars, healthVars>>

\* a Wait that does not wait
WaitReturnsAtOnce == TRUE

\* wg.Wait returns
WaitReturns == wg = 0

\* lines 58-59 and runRoot line 159
SpeedWait ==
    /\ pc = "wait"
    /\ WaitReturns
    /\ providers' = result
    /\ pc' = "sort"
    /\ UNCHANGED <<inputVars, rootVars, err, selectVars, healthVars, speedVars>>

\* ------------------------------------------------ runRoot, lines 161-210
\* lines 161-163
SortProviders ==
    /\ pc = "sort"
    /\ providers' \in SortOutcomes(providers)
    /\ pc' = "select"
    /\ UNCHANGED <<inputVars, rootVars, err, selectVars, healthVars, speedVars>>

\* a Selector that asks in manual mode whenever a candidate is left
SelectProviderAlwaysAsks ==
    /\ pc = "select"
    /\ IF Len(providers) = 0
       THEN pc' = "exit" /\ err' = "no snapshots available"
            /\ selectedProvider' = selectedProvider
       ELSE IF manual
       THEN pc' = "prompt" /\ err' = err /\ selectedProvider' = selectedProvider
       ELSE pc' = "download" /\ err' = err /\ selectedProvider' = providers[1]
    /\ UNCHANGED <<inputVars, rootVars, providers, choice, scans, downloadURL,
                   healthVars, speedVars>>

\* lines 165-172 and 188-191
SelectProvider ==
    /\ pc = "select"
    /\ IF Len(providers) = 0
       THEN pc' = "exit" /\ err' = "no snapshots available"
            /\ selectedProvider' = selectedProvider
       ELSE IF Len(providers) = 1
       THEN pc' = "download" /\ err' = err /\ selectedProvider' = providers[1]
       ELSE IF manual
       THEN pc' = "prompt" /\ err' = err /\ selectedProvider' = selectedProvider
       ELSE pc' = "download" /\ err' = err /\ selectedProvider' = providers[1]
    /\ UNCHANGED <<inputVars, rootVars, providers, choice, scans, downloadURL,
                   healthVars, speedVars>>

\* the range check with its lower bound off by one
ValidChoiceFromTwo(c, n) == c > 1 /\ c <= n

\* line 182
ValidChoice(c, n) == c > 0 /\ c <= n

\* lines 179-187: one turn of the loop.  fmt.Scanf stores the integer it
\* read in choice (scan.ok), or fails and leaves choice as it was.
Prompt(scan) ==
    /\ pc = "prompt"
    /\ scans < MaxPrompts
    /\ scans' = scans + 1
    /\ choice' = IF scan.ok THEN scan.val ELSE choice
    /\ IF ValidChoice(choice', Len(providers))
       THEN pc' = "download" /\ selectedProvider' = providers[choice']
       ELSE pc' = "prompt" /\ selectedProvider' = selectedProvider
    /\ UNCHANGED <<inputVars, rootVars, providers, err, downloadURL,
                   healthVars, speedVars>>

\* lines 196-210
Download(outcome) ==
    /\ pc = "download"
    /\ pc' = "exit"
    /\ IF outcome = "nohome"
       THEN err' = "failed to get home directory" /\ downloadURL' = downloadURL
       ELSE /\ downloadURL' = Append(downloadURL, selectedProvider.URL)
            /\ err' = IF outcome = "failed" THEN "failed to download snapshot" ELSE err
    /\ UNCHANGED <<inputVars, rootVars, providers, choice, scans,
                   selectedProvider, healthVars, speedVars>>


\* --------------------------------------------------------------- inputs
ProviderNames == <<"p1", "p2", "p3", "p4", "p5", "p6">>
SnapshotURLs == <<"u1", "u2", "u3", "u4", "u5", "u6">>

SnapshotTypes == {"consensus-pruned", "bridge-archive"}
ChainIDs == {"celestia", "mocha-4"}
SnapshotKinds == [Type : SnapshotTypes, ChainID : ChainIDs]

RECURSIVE SumTo(_, _)
SumTo(sz, j) == IF j = 0 THEN 0 ELSE sz[j] + SumTo(sz, j - 1)

\* the ways to deal n snapshots to at most MaxProviders providers, in order
Splits(n) ==
    UNION {{sz \in [1..k -> 0..n] : SumTo(sz, k) = n} : k \in 0..MaxProviders}

\* the catalog whose snapshots are, in catalog order, of the kinds `flat`
\* (the i-th with URL SnapshotURLs[i]), dealt to providers by `sz`
Catalog(flat, sz) ==
    [j \in 1..Len(sz) |->
        [Name |-> ProviderNames[j],
         Snapshots |-> [i \in 1..sz[j] |->
            LET at == SumTo(sz, j - 1) + i
            IN  [Type |-> flat[at].Type, ChainID |-> flat[at].ChainID,
                 URL |-> SnapshotURLs[at], MetadataURL |-> ""]]]]

CatalogsOf(kinds) ==
    UNION {{Catalog(flat, sz) : flat \in [1..n -> kinds], sz \in Splits(n)} :
           n \in 0..MaxSnapshots}

\* the catalogs of a whole run: one provider listing every snapshot, or one
\* provider for each snapshot
RunSplits(n) ==
    {sz \in Splits(n) : Len(sz) = 1 \/ \A j \in 1..Len(sz) : sz[j] = 1}
RunCatalogsOf(kinds) ==
    UNION {{Catalog(flat, sz) : flat \in [1..n -> kinds], sz \in RunSplits(n)} :
           n \in 0..MaxSnapshots}

\* Content-Length headers: absent, decimal, signed, not a number, 2^62, 2^63
Headers ==
    {<<>>, <<"7">>, <<"+", "3">>, <<"-", "5">>, <<"4", "x">>,
     <<"4","6","1","1","6","8","6","0","1","8","4","2","7","3","8","7","9","0","4">>,
     <<"9","2","2","3","3","7","2","0","3","6","8","5","4","7","7","5","8","0","8">>}

HeadResponses ==
    {HeadError, HeadResponse(404, <<"7">>)}
        \cup {HeadResponse(StatusOK, h) : h \in Headers}

\* a Read of the body: n bytes, the error returned, the seconds it took
Reads ==
    {[n |-> 5, err |-> "nil", dt |-> 0], [n |-> 5, err |-> "nil", dt |-> 10],
     [n |-> 0, err |-> "EOF", dt |-> 10], [n |-> 5, err |-> "EOF", dt |-> 0],
     [n |-> 5, err |-> "error", dt |-> 10]}

ScanResults ==
    {[ok |-> FALSE, val |-> 0]}
        \cup {[ok |-> TRUE, val |-> v] : v \in -1..(MaxSnapshots + 1)}

\* the candidates FilterProviders can hand to CheckHealth
Candidates(n) == [i \in 1..n |-> NewProviderInfo(ProviderNames[i], SnapshotURLs[i], "")]

\* the sizes CheckHealth can leave: 0, 7, -5, 2^62
Sizes == {HeaderSize(h) : h \in {<<>>, <<"7">>, <<"-", "5">>,
    <<"4","6","1","1","6","8","6","0","1","8","4","2","7","3","8","7","9","0","4">>}}


\* ------------------------------------------------------- specifications
\* the state before runRoot's first statement, but for the inputs
Fresh ==
    /\ err = ""
    /\ choice = 0
    /\ scans = 0
    /\ selectedProvider = <<>>
    /\ downloadURL = <<>>
    /\ hIdx = 1
    /\ healthy = <<>>
    /\ inflight = FALSE
    /\ headLog = <<>>
    /\ result = <<>>
    /\ wg = 0
    /\ task = <<>>

\* A whole run of runRoot.
RunArgs == {<<"c", "pruned">>, <<"full", "pruned">>}
RunKinds == {[Type |-> "consensus-pruned", ChainID |-> "celestia"],
             [Type |-> "bridge-archive", ChainID |-> "mocha-4"]}
RunHeads == {HeadError, HeadResponse(StatusOK, <<>>), HeadResponse(StatusOK, <<"7">>)}
RunReads == [n : {5, 10}, err : {"EOF"}, dt : {10}]

Init ==
    /\ args \in RunArgs
    /\ chainID \in ChainIDs
    /\ manual \in BOOLEAN
    /\ remote \in RunCatalogsOf(RunKinds)
    /\ pc = "validate"
    /\ nodeType = ""
    /\ snapshotType = ""
    /\ cfg = <<>>
    /\ providers = <<>>
    /\ Fresh

Next ==
    \/ ValidateArgs
    \/ \E ok \in BOOLEAN : FetchProviders(ok)
    \/ RunFilter
    \/ HealthSend
    \/ \E resp \in RunHeads : HealthRecv(resp)
    \/ HealthReturn
    \/ SpeedStart
    \/ \E idx \in 1..MaxSnapshots, ok \in BOOLEAN : SpeedGet(idx, ok)
    \/ \E idx \in 1..MaxSnapshots, rd \in RunReads : SpeedRead(idx, rd)
    \/ \E idx \in 1..MaxSnapshots : SpeedAnnotate(idx)
    \/ SpeedWait
    \/ SortProviders
    \/ SelectProvider
    \/ \E scan \in ScanResults : Prompt(scan)
    \/ \E outcome \in {"nohome", "failed", "ok"} : Download(outcome)

Spec == Init /\ [][Next]_vars


\* FilterProviders alone, on every catalog and request of the bounds.
InitFilter ==
    /\ nodeType \in {"consensus", "bridge"}
    /\ snapshotType \in {"pruned", "archive"}
    /\ chainID \in {"", "celestia", "mocha-4"}
    /\ cfg \in CatalogsOf(SnapshotKinds)
    /\ args = <<nodeType, snapshotType>>
    /\ remote = cfg
    /\ manual = FALSE
    /\ pc = "filter"
    /\ providers = <<>>
    /\ Fresh

NextFilter == RunFilter

SpecFilter == InitFilter /\ [][NextFilter]_vars

\* CheckHealth alone, on every list of the bounds and every response.
InitHealth ==
    /\ args = <<"consensus", "pruned">>
    /\ nodeType = "consensus"
    /\ snapshotType = "pruned"
    /\ chainID = ""
    /\ manual = FALSE
    /\ remote = <<>>
    /\ cfg = <<>>
    /\ pc = "health"
    /\ providers \in {Candidates(n) : n \in 1..MaxCandidates}
    /\ Fresh

NextHealth ==
    \/ HealthSend
    \/ \E resp \in HeadResponses : HealthRecv(resp)
    \/ HealthReturn

SpecHealth == InitHealth /\ [][NextHealth]_vars

\* TestProviders alone, on every list of the bounds and every course of the
\* probes.
InitSpeed ==
    /\ args = <<"consensus", "pruned">>
    /\ nodeType = "consensus"
    /\ snapshotType = "pruned"
    /\ chainID = ""
    /\ manual = FALSE
    /\ remote = <<>>
    /\ cfg = <<>>
    /\ pc = "speedtest"
    /\ providers \in UNION {
         {[i \in 1..n |-> [Candidates(n)[i] EXCEPT !.Size = sz[i]]] :
             sz \in [1..n -> Sizes]} : n \in 0..MaxCandidates}
    /\ Fresh

NextSpeed ==
    \/ SpeedStart
    \/ \E idx \in 1..MaxCandidates, ok \in BOOLEAN : SpeedGet(idx, ok)
    \/ \E idx \in 1..MaxCandidates, rd \in Reads : SpeedRead(idx, rd)
    \/ \E idx \in 1..MaxCandidates : SpeedAnnotate(idx)
    \/ SpeedWait

SpecSpeed == InitSpeed /\ [][NextSpeed]_vars

\* TestProviders under the scheduling the code relies on: while a goroutine
\* can take a step some goroutine does, and a Get or a Read that has been
\* issued returns, at the latest when the client's Timeout of line 25
\* expires.  No step of a task disables a step of another, so this weak
\* fairness of the whole stage lets no task wait for ever.
SpeedFairness == WF_vars(NextSpeed)

\* the input lists of every length of the bounds; the sizes, which no loop
\* condition and no guard of the stage reads, are left at 0
InitSpeedLive ==
    /\ InitSpeed
    /\ \A i \in 1..Len(providers) : providers[i].Size = Int64Zero

SpecSpeedLive == InitSpeedLive /\ [][NextSpeed]_vars /\ SpeedFairness


\* ================================================================ claims
\* a catalog snapshot the request asks for
Matches(s) ==
    /\ s.Type = nodeType \o "-" \o snapshotType
    /\ chainID = "" \/ s.ChainID = chainID

\* the places <<provider, snapshot>> of the catalog, and catalog order
Places == {pl \in (1..Len(cfg)) \X (1..MaxSnapshots) :
              pl[2] <= Len(cfg[pl[1]].Snapshots)}
SnapshotAt(pl) == cfg[pl[1]].Snapshots[pl[2]]
Before(pl, ql) == pl[1] < ql[1] \/ (pl[1] = ql[1] /\ pl[2] < ql[2])

\* a Head response that is a success
Passed(resp) == ~resp.err /\ resp.status = StatusOK

\* C1: in automatic mode the URL handed to Download is the URL of a snapshot
\* that matched the request, whose Head probe succeeded, and whose measured
\* rate no other healthy candidate's measured rate exceeds.
C1_AutoDownloadsFastest ==
    (~manual /\ downloadURL # <<>>) =>
        /\ Len(downloadURL) = 1
        /\ \E pl \in Places :
              SnapshotAt(pl).URL = downloadURL[1] /\ Matches(SnapshotAt(pl))
        /\ \E i \in 1..Len(headLog) :
              /\ FilterProviders(cfg, nodeType, snapshotType, chainID)[i].URL
                     = downloadURL[1]
              /\ Passed(headLog[i])
        /\ \E j \in 1..Len(task) :
              /\ healthy[j].URL = downloadURL[1]
              /\ \A k \in 1..Len(task) :
                    ~FloatGreater(task[k].speed, task[j].speed)

\* C1's case: three candidates, one fails the health check, the other two
\* are measured at different rates, and the download starts
C1_Witness ==
    /\ ~manual
    /\ downloadURL # <<>>
    /\ Len(headLog) = 3
    /\ Len(task) = 2
    /\ task[1].speed # task[2].speed

\* C2: FilterProviders returns one candidate for each catalog snapshot that
\* matches the request and for no other, in catalog order, with the
\* provider's name and the snapshot's URLs; no match gives the empty list.
C2_FilterExact ==
    pc # "filter" =>
        /\ Len(providers) = Cardinality({pl \in Places : Matches(SnapshotAt(pl))})
        /\ \A i \in 1..Len(providers) : \E pl \in Places :
              /\ Matches(SnapshotAt(pl))
              /\ providers[i] = NewProviderInfo(cfg[pl[1]].Name,
                     SnapshotAt(pl).URL, SnapshotAt(pl).MetadataURL)
        /\ \A i, j \in 1..Len(providers) : i < j =>
              \E pl, ql \in Places :
                 /\ SnapshotAt(pl).URL = providers[i].URL
                 /\ SnapshotAt(ql).URL = providers[j].URL
                 /\ Before(pl, ql)

\* C2's case: the filter has kept some snapshots and dropped others, under a
\* request without a chain id
C2_Witness ==
    /\ pc = "health"
    /\ chainID = ""
    /\ Len(providers) = 2
    /\ Cardinality(Places) = 3

\* C3: CheckHealth's list holds, once and in no other number, each candidate
\* of its input whose probe succeeded, and no candidate whose probe failed.
C3_HealthyExactlyOnce ==
    pc = "health" =>
        /\ Len(headLog) = hIdx - 1
        /\ \A i \in 1..Len(headLog) :
              Cardinality({j \in 1..Len(healthy) : healthy[j].URL = providers[i].URL})
                  = IF Passed(headLog[i]) THEN 1 ELSE 0
        /\ \A j \in 1..Len(healthy) : \E i \in 1..Len(headLog) :
              /\ healthy[j].Name = providers[i].Name
              /\ healthy[j].URL = providers[i].URL
              /\ healthy[j].MetadataURL = providers[i].MetadataURL

\* C3's case: the loop is over, a probe failed and a probe succeeded
C3_Witness ==
    /\ pc = "health"
    /\ hIdx > Len(providers)
    /\ \E i, j \in 1..Len(headLog) : ~Passed(headLog[i]) /\ Passed(headLog[j])


\* the size the claim gives a response with Content-Length cl: the header's
\* value when it parses as a non-negative integer, 0 otherwise
DeclaredSize(cl) ==
    IF cl # <<>> /\ ~ParseInt(cl).err /\ ~ParseInt(cl).val.neg
    THEN ParseInt(cl).val ELSE Int64Zero

\* C4: every candidate whose probe succeeded is in CheckHealth's list with a
\* size >= 0: the Content-Length when it parses as a non-negative integer,
\* 0 when it is absent or does not.
C4_SizeNonNegative ==
    pc = "health" =>
        \A i \in 1..Len(headLog) : Passed(headLog[i]) =>
            \E j \in 1..Len(healthy) :
                /\ healthy[j].URL = providers[i].URL
                /\ Int64NonNeg(healthy[j].Size)
                /\ healthy[j].Size = DeclaredSize(headLog[i].contentLength)

\* C5: TestProviders returns a list as long as its input, with the same
\* name, URL and size at each index and a rate >= 0.
C5_AnnotatesOnly ==
    [][(pc = "wait" /\ pc' = "sort") =>
        /\ Len(providers') = Len(providers)
        /\ \A i \in 1..Len(providers) :
              /\ providers'[i].Name = providers[i].Name
              /\ providers'[i].URL = providers[i].URL
              /\ providers'[i].Size = providers[i].Size
              /\ providers'[i].Speed.num >= 0
              /\ providers'[i].Speed.den > 0]_vars

\* C5's case: TestProviders has returned two candidates of known size, one
\* whose probe gave rate 0 and one with a positive rate
C5_Witness ==
    /\ pc = "sort"
    /\ Len(providers) = 2
    /\ Int64Pos(providers[1].Size) /\ Int64Pos(providers[2].Size)
    /\ providers[1].Speed = FloatZero
    /\ FloatPos(providers[2].Speed)

\* DownloadTime = Size / (Speed * 10^6), for Speed in MB/s and Size in bytes
IsSizeOverRate(c) ==
    /\ FloatPos(c.Speed)
    /\ Int64Pos(c.Size)
    /\ MagMul(c.DownloadTime.num, c.Speed.num * MB)
           = MagMul(c.Size.mag, c.DownloadTime.den * c.Speed.den)
IsSentinel(c) == TimeEq(c.DownloadTime, MaxTime)

\* C6: each candidate TestProviders returns has DownloadTime = size / rate
\* when rate > 0 and size > 0 and the sentinel otherwise, exactly one of the
\* two, and never the initial value.
C6_TimeIsQuotientXorSentinel ==
    pc = "sort" =>
        \A i \in 1..Len(providers) :
            LET c == providers[i]
            IN  /\ (FloatPos(c.Speed) /\ Int64Pos(c.Size)) => IsSizeOverRate(c)
                /\ ~(FloatPos(c.Speed) /\ Int64Pos(c.Size)) => IsSentinel(c)
                /\ IsSizeOverRate(c) # IsSentinel(c)
                /\ ~TimeEq(c.DownloadTime, TimeZero)

\* the Selector has begun: ranking, prompt, selection or download
SelectorBegun ==
    \/ pc \in {"sort", "select", "prompt", "download"}
    \/ scans > 0
    \/ selectedProvider # <<>>
    \/ downloadURL # <<>>

\* C7: ranking, the prompt and the download begin only when every probe
\* task of TestProviders has finished and its rate is written in its slot.
C7_JoinBeforeSelector ==
    SelectorBegun =>
        /\ wg = 0
        /\ Len(task) = Len(healthy)
        /\ Len(result) = Len(healthy)
        /\ \A i \in 1..Len(task) :
              /\ task[i].pc = "done"
              /\ result[i].Speed = task[i].speed
              /\ StripZeros(result[i].DownloadTime.num) # <<>>
        /\ pc = "sort" => providers = result

\* C7's case: the prompt is up after three probe tasks, one of which failed
C7_Witness ==
    /\ pc = "prompt"
    /\ Len(task) = 3
    /\ task[1].speed = FloatZero
    /\ FloatPos(task[2].speed)

\* where the candidate with URL u stands in the list ps
PositionOf(ps, u) == CHOOSE i \in 1..Len(ps) : ps[i].URL = u

\* C8: after the sort the list is a permutation of TestProviders' output,
\* descending by rate, with equal rates in their order before the sort.
C8_StableDescendingSort ==
    pc \in {"select", "prompt", "download"} =>
        /\ \E f \in Perms(Len(result)) :
              providers = [i \in 1..Len(result) |-> result[f[i]]]
        /\ \A i, j \in 1..Len(providers) : i < j =>
              ~FloatGreater(providers[j].Speed, providers[i].Speed)
        /\ \A i, j \in 1..Len(result) :
              (i < j /\ result[i].Speed = result[j].Speed) =>
                  PositionOf(providers, result[i].URL)
                      < PositionOf(providers, result[j].URL)

\* C9: the prompt is up only in manual mode with at least two candidates and
\* no valid choice yet; each Scanf either leaves a rank in 1..N in choice,
\* and then that candidate is selected and the loop left, or does not, and
\* then the prompt comes again, nothing selected and no error raised.
C9_PromptLoop ==
    [][pc = "prompt" =>
        /\ manual
        /\ Len(providers) >= 2
        /\ choice \notin 1..Len(providers)
        /\ scans' # scans =>
              IF choice' \in 1..Len(providers)
              THEN /\ pc' = "download"
                   /\ selectedProvider' = providers[choice']
                   /\ err' = ""
              ELSE /\ pc' = "prompt"
                   /\ selectedProvider' = <<>>
                   /\ err' = ""]_vars

\* C9's case: two invalid inputs, then rank 2 of three candidates
C9_Witness ==
    /\ manual
    /\ pc = "download"
    /\ scans = 3
    /\ Len(providers) = 3
    /\ choice = 2
    /\ selectedProvider = providers[2]

\* the filter has run; no probe stage after the health check has begun
FilterRan ==
    /\ pc \notin {"validate", "fetch", "filter"}
    /\ err \notin {"validation failed", "failed to load providers configuration"}
NoLaterStage ==
    /\ task = <<>> /\ wg = 0 /\ result = <<>>
    /\ scans = 0 /\ selectedProvider = <<>> /\ downloadURL = <<>>

\* C10: with no matching snapshot the run ends with the no-match error and
\* no health probe; with no healthy candidate it ends with the no-healthy
\* error and no throughput probe, selection or download.
C10_EmptyIsTerminal ==
    /\ (FilterRan /\ ~\E pl \in Places : Matches(SnapshotAt(pl))) =>
          /\ pc = "exit" /\ err = "no snapshots found"
          /\ headLog = <<>> /\ ~inflight /\ NoLaterStage
    /\ (FilterRan /\ pc # "health" /\ (\E pl \in Places : Matches(SnapshotAt(pl)))
            /\ \A i \in 1..Len(headLog) : ~Passed(headLog[i])) =>
          /\ pc = "exit" /\ err = "no healthy snapshots found"
          /\ NoLaterStage

\* C10's case: three candidates, all of which fail the health check
C10_Witness ==
    /\ err = "no healthy snapshots found"
    /\ Len(headLog) = 3

\* C11: in both probe stages the probe of a candidate can start while the
\* probe of another candidate is still outstanding: a candidate whose probe
\* has not been sent never has to wait for another candidate's response.
C11_ProbesStartIndependently ==
    /\ (pc = "health" /\ inflight /\ hIdx < Len(providers)) => ENABLED HealthSend
    /\ pc = "wait" =>
          \A i \in 1..Len(task) :
              task[i].pc = "go" => ENABLED SpeedGet(i, TRUE)

\* C12: when one candidate is left after the probe stages it is selected
\* without a prompt and without reading a choice, in manual mode too.
C12_SingleSelectedDirectly ==
    (Len(providers) = 1 /\ pc \in {"select", "prompt", "download", "exit"}) =>
        /\ pc # "prompt"
        /\ scans = 0
        /\ choice = 0
        /\ pc # "select" => selectedProvider = providers[1]
        /\ downloadURL # <<>> => downloadURL = <<providers[1].URL>>

\* C12's case: manual mode, three candidates probed, one left and downloaded
C12_Witness ==
    /\ manual
    /\ Len(headLog) = 3
    /\ Len(providers) = 1
    /\ pc = "exit"
    /\ downloadURL = <<providers[1].URL>>

\* C13: a throughput probe whose Get or Read failed leaves its candidate in
\* the list TestProviders returns, with rate 0.
C13_FailedProbeRatesZero ==
    pc = "sort" =>
        /\ Len(providers) = Len(task)
        /\ \A i \in 1..Len(task) :
              task[i].err \in {"get", "error"} => providers[i].Speed = FloatZero

\* C14: each filtered candidate is sent one Head request, each healthy
\* candidate one Get request, and a candidate the health check dropped none.
C14_EachProbedOnce ==
    LET filtered == FilterProviders(cfg, nodeType, snapshotType, chainID)
        sent     == Len(headLog) + (IF inflight THEN 1 ELSE 0)
        passed   == {k \in 1..Len(headLog) : Passed(headLog[k])}
    IN  /\ pc = "health" =>
              /\ providers = filtered
              /\ hIdx = Len(headLog) + 1
              /\ sent <= Len(filtered)
        /\ (FilterRan /\ pc # "health") =>
              Len(headLog) = Len(filtered) /\ ~inflight
        /\ Len(healthy) = Cardinality(passed)
        /\ \A j \in 1..Len(healthy) :
              \E k \in passed : filtered[k].URL = healthy[j].URL
        /\ \A i, j \in 1..Len(healthy) :
              healthy[i].URL = healthy[j].URL => i = j
        /\ Len(task) \in {0, Len(healthy)}
        /\ \A i \in 1..Len(task) :
              /\ result[i].URL = healthy[i].URL
              /\ task[i].gets = IF task[i].pc = "go" THEN 0 ELSE 1
        /\ SelectorBegun => \A i \in 1..Len(task) : task[i].gets = 1

\* C14's case: of three candidates one was dropped by the health check, one
\* failed its Get, and the run went on to the download
C14_Witness ==
    /\ pc = "download"
    /\ Len(headLog) = 3
    /\ Len(task) = 2
    /\ task[1].err = "get"
    /\ task[2].err # "get"

\* C15: while the tasks of TestProviders run, slot i of result holds the
\* input candidate until task i has finished, and then that candidate
\* annotated with task i's own measurement: no other task's step, and no
\* order of the tasks, shows in it.
C15_OwnSlotOnly ==
    pc = "wait" =>
        /\ Len(result) = Len(providers)
        /\ \A i \in 1..Len(task) :
              result[i] = IF task[i].pc = "done"
                          THEN Annotated(providers[i], task[i].speed)
                          ELSE providers[i]

\* C15's case: the second task has written its slot while the first still
\* reads its response
C15_Witness ==
    /\ pc = "wait"
    /\ Len(task) = 2
    /\ task[1].pc = "read"
    /\ task[2].pc = "done"
    /\ result[1] = providers[1]
    /\ result[2] # providers[2]

\* C16: a candidate's size is written once, by the health stage, and its
\* rate once, by the throughput stage, each before a later stage reads it:
\* the Filter's candidates carry neither; a healthy candidate carries the
\* size of its Head response and no rate; the throughput stage starts after
\* the health stage has ended, keeps the size and holds no rate in a slot
\* until its task writes it; the Selector starts after every task has
\* written and changes no candidate.
C16_WrittenOnceBeforeRead ==
    LET filtered == FilterProviders(cfg, nodeType, snapshotType, chainID)
    IN  /\ \A k \in 1..Len(filtered) :
              filtered[k].Size = Int64Zero /\ filtered[k].Speed = FloatZero
        /\ \A j \in 1..Len(healthy) :
              /\ healthy[j].Speed = FloatZero
              /\ \E k \in 1..Len(headLog) :
                    /\ Passed(headLog[k])
                    /\ filtered[k].URL = healthy[j].URL
                    /\ healthy[j].Size = HeaderSize(headLog[k].contentLength)
        /\ Len(task) > 0 => (pc # "health" /\ ~inflight /\ Len(result) = Len(healthy))
        /\ \A i \in 1..Len(task) :
              /\ result[i].Size = healthy[i].Size
              /\ result[i].Speed = IF task[i].pc = "done" THEN task[i].speed
                                   ELSE FloatZero
        /\ SelectorBegun =>
              /\ \A i \in 1..Len(task) : task[i].pc = "done"
              /\ {providers[i] : i \in 1..Len(providers)}
                     = {result[i] : i \in 1..Len(result)}

\* C16's case: the Selector holds two candidates of known size, one with a
\* positive rate and one whose probe gave rate 0
C16_Witness ==
    /\ pc = "select"
    /\ Len(providers) = 2
    /\ Int64Pos(providers[1].Size) /\ Int64Pos(providers[2].Size)
    /\ FloatPos(providers[1].Speed)
    /\ providers[2].Speed = FloatZero

\* C17: the error "no snapshots available" is never raised: from the
\* throughput stage on, and so whenever the Selector runs, the candidate
\* list is not empty.
C17_SelectorNeverEmpty ==
    /\ err # "no snapshots available"
    /\ pc \in {"speedtest", "wait", "sort", "select", "prompt", "download"} =>
          Len(providers) >= 1
    /\ pc \in {"sort", "select", "prompt", "download"} =>
          Len(result) = Len(healthy) /\ Len(providers) = Len(result)

\* C17's case: the Selector runs on the one candidate left of three, whose
\* throughput probe failed
C17_Witness ==
    /\ pc = "select"
    /\ Len(headLog) = 3
    /\ Len(providers) = 1
    /\ providers[1].Speed = FloatZero

\* C18: TestProviders always returns: from its call on, for every input
\* list, every task finishes and the call returns.
C18_ThroughputTerminates ==
    (pc = "speedtest") ~>
        (pc = "sort" /\ wg = 0 /\ \A i \in 1..Len(task) : task[i].pc = "done")

\* C18's case: TestProviders has returned after one probe ended on a read
\* error and the other at the end of the test window
C18_Witness ==
    /\ pc = "sort"
    /\ Len(task) = 2
    /\ task[1].err = "error"
    /\ task[2].err = "nil"

\* C19: CheckHealth's output holds the candidates whose probe succeeded in
\* the order of its input, and after the ranking two candidates of equal
\* rate stand in catalog order.
C19_TiesInCatalogOrder ==
    LET filtered == FilterProviders(cfg, nodeType, snapshotType, chainID)
    IN  /\ \A i \in 1..Len(healthy) :
              \E k \in 1..Len(headLog) :
                  Passed(headLog[k]) /\ filtered[k].URL = healthy[i].URL
        /\ \A i, j \in 1..Len(healthy) : i < j =>
              PositionOf(filtered, healthy[i].URL)
                  < PositionOf(filtered, healthy[j].URL)
        /\ pc \in {"select", "prompt", "download"} =>
              \A i, j \in 1..Len(providers) :
                  (i < j /\ providers[i].Speed = providers[j].Speed) =>
                      PositionOf(filtered, providers[i].URL)
                          < PositionOf(filtered, providers[j].URL)

=============================================================================
